---- MODULE Spec2Model ----
(***************************************************************************)
(* Model of the TCP stream-compression wrappers of                         *)
(* pkg/middlewares/tcp/streamcompress/zstd.go:                             *)
(*   zstdDecompressor (decode-side wrapper, mutex guarded codec calls)     *)
(*   zstdCompressor   (encode-side wrapper, relay buffer + write pump)     *)
(* over a raw connection, and of the pipeline                              *)
(*   raw connection <- zstdCompressor <- zstdDecompressor <- application   *)
(* built by streamCompress.ServeTCP.                                       *)
(***************************************************************************)
EXTENDS Integers, Sequences, FiniteSets, TLC

VARIABLES topo, pc, loc, ret, calls, conn, d, c, g, h, p4

vars == <<topo, pc, loc, ret, calls, conn, d, c, g, h, p4>>

(* ------------------------------ bounds --------------------------------- *)
\* MaxCalls: the calls the caller threads make in all; MaxRx: the chunks the
\* peer sends.
MaxCalls == 2
MaxRx == 2

\* Two caller threads, the least that can call concurrently; the pipeline's
\* application is the first.
Threads == {1, 2}
AppThread == 1
Byte == {0, 1, 2}
Payloads == {<<>>, <<1>>, <<1, 2>>}

(* ------------------------------ helpers -------------------------------- *)
IsPrefix(s, t) == Len(s) <= Len(t) /\ SubSeq(t, 1, Len(s)) = s

\* A call's locals: the operation, its argument p, the results so far (n, err,
\* werr: the encoder step's error), the units on their way to the underlying
\* connection (out), where a nested call returns to (cont), and what the call
\* saw: after (it began after a Close had returned), blk (a Read was blocked in
\* the underlying read when it armed the deadline), zero (the underlying Read
\* gave 0 bytes and no error), pos (the end of p in the accepted bytes), uerr
\* (what the underlying Close or CloseWrite returned), ucl (how often the call
\* invoked the underlying Close), pdone (the write direction was shut down
\* when the call began: the write pump had left WriteTo, or the decode-side
\* CloseWrite had half-closed the connection).
Loc0 == [op |-> "none", p |-> <<>>, n |-> 0, err |-> "nil", werr |-> "nil",
         out |-> <<>>, cont |-> "idle", after |-> FALSE, blk |-> FALSE,
         zero |-> FALSE, pos |-> 0, uerr |-> "nil", ucl |-> 0, pdone |-> FALSE]

\* The call that returned last.
Ret0 == [op |-> "none", n |-> 0, err |-> "nil", werr |-> "nil", after |-> FALSE,
         blk |-> FALSE, zero |-> FALSE, pos |-> 0, uerr |-> "nil", ucl |-> 0,
         pdone |-> FALSE]

(* ------------------- the zstd codec (klauspost/compress) --------------- *)
(* A compressed stream is a sequence of units: a frame header, data blocks *)
(* (one per Flush) and the end-of-frame mark written by Close.  A block    *)
(* holds the transformed bytes; the transform is not the identity.         *)
EncByte(b) == (b + 1) % Cardinality(Byte)
DecByte(x) == (x + Cardinality(Byte) - 1) % Cardinality(Byte)

Hdr == [k |-> "hdr", b |-> <<>>]
Blk(bytes) == [k |-> "blk", b |-> [i \in 1..Len(bytes) |-> EncByte(bytes[i])]]
End == [k |-> "end", b |-> <<>>]

Enc0 == [filling |-> <<>>, hdr |-> FALSE, closed |-> FALSE, err |-> FALSE]

\* Encoder.Write(p): buffers p; fails once the encoder is closed.
EncoderWrite(e, p) ==
    IF e.closed
    THEN [e |-> e, n |-> 0, err |-> "ErrEncoderClosed"]
    ELSE [e |-> [e EXCEPT !.filling = @ \o p], n |-> Len(p), err |-> "nil"]

\* Units Encoder.Flush() hands to the encoder's destination.
EncoderFlushOut(e) ==
    IF e.closed \/ e.err \/ e.filling = <<>> THEN <<>>
    ELSE (IF e.hdr THEN <<>> ELSE <<Hdr>>) \o <<Blk(e.filling)>>

EncoderFlushed(e) ==
    IF e.closed \/ e.err \/ e.filling = <<>> THEN e
    ELSE [e EXCEPT !.filling = <<>>, !.hdr = TRUE]

\* Units Encoder.Close() hands to the destination: what is still buffered
\* and the end of the frame; nothing for a closed, failed or unused encoder.
EncoderCloseOut(e) ==
    IF e.closed \/ e.err \/ (~e.hdr /\ e.filling = <<>>) THEN <<>>
    ELSE EncoderFlushOut(e) \o <<End>>

\* Encoder.Close() on an encoder whose destination failed earlier returns that
\* error and leaves the encoder as it is.
EncoderClosed(e) == IF e.err THEN e
                    ELSE [e EXCEPT !.filling = <<>>, !.closed = TRUE,
                                   !.hdr = (e.hdr \/ e.filling # <<>>)]

\* What Flush() or Close() returns when it has nothing to hand on.
EncoderIdleErrs(e, closing) ==
    IF e.err THEN {"ErrWrite"}
    ELSE IF e.closed /\ ~closing THEN {"nil", "ErrEncoderClosed"}
    ELSE {"nil"}

\* The destination's failure sticks to the encoder.
EncoderFailed(e, err) ==
    [e EXCEPT !.err = (@ \/ err \notin {"nil", "ErrEncoderClosed"})]

\* What a decoder outputs for a sequence of units (header first).
RECURSIVE DecodeBlocks(_)
DecodeBlocks(us) ==
    IF us = <<>> THEN <<>>
    ELSE IF Head(us).k = "blk"
         THEN [i \in 1..Len(Head(us).b) |-> DecByte(Head(us).b[i])]
              \o DecodeBlocks(Tail(us))
         ELSE DecodeBlocks(Tail(us))

DecodeAll(us) ==
    IF us = <<>> THEN <<>>
    ELSE IF Head(us).k = "hdr" THEN DecodeBlocks(Tail(us)) ELSE <<>>

(* --------------------------- raw connection ---------------------------- *)
\* rx: the chunks the peer sent that are not read yet; tx: what the peer
\* received; rdl, wdl: the read and write deadlines; closed: the number of
\* Close calls; wclosed: CloseWrite was called; wbroken: the peer stopped
\* reading, writes fail.
Conn0 == [rx |-> <<>>, rxEOF |-> FALSE, sent |-> 0, tx |-> <<>>,
          rdl |-> "none", wdl |-> "none", closed |-> 0, wclosed |-> FALSE,
          wbroken |-> FALSE]

ConnCanWrite == conn.closed = 0 /\ ~conn.wclosed /\ ~conn.wbroken
                /\ conn.wdl # "expired"
ConnCanRead == conn.closed = 0 /\ conn.rdl # "expired"

ConnIOErr(dl) == IF conn.closed > 0 THEN "ErrUseOfClosed"
                 ELSE IF dl = "expired" THEN "ErrTimeout" ELSE "ErrBrokenPipe"

Arm(dl) == IF conn.closed > 0 THEN dl ELSE "armed"

ConnCloseResults == IF conn.closed = 0 THEN {"nil", "ErrConnClose"}
                    ELSE {"nil", "ErrUseOfClosed"}

(* ------------------------------ the state ------------------------------ *)
Dec0 == [mu |-> 0, muW |-> 0, enc |-> Enc0, rclosed |-> FALSE]

\* zstdCompressor: the relay buffer (readBuffer), the encoder writing into it,
\* the io.Pipe between Write and the write pump (the units of the Write in
\* progress and its caller, the two ends' closed flags), the pump's position,
\* its decoder's input side and place in the stream, the queue of decoded
\* chunks it still has to write to the connection, and the wait group's counter.
\* History: werr (a Write of the pump to the connection failed), wacc (the
\* decoded bytes of the Writes that returned success), rdin (the bytes Read
\* took from the connection, in the order it took them).
Comp0 == [buf |-> <<>>, enc |-> Enc0,
          pipe |-> [data |-> <<>>, writer |-> 0, wclosed |-> FALSE, rclosed |-> FALSE],
          pump |-> "run", pin |-> "open", pdec |-> "fresh", pq |-> <<>>, wg |-> 1,
          werr |-> FALSE, wacc |-> <<>>, rdin |-> <<>>]

\* History: the bytes the write-side codec accepted, whether a Close returned,
\* how many chunks the application handed to Write, the units Read returned.
G0 == [accepted |-> <<>>, closes |-> 0, wsent |-> 0, rd |-> <<>>]

\* The middleware: the configuration passed to New (cfg), what New returned
\* (built: "none" before New, then "handler" or "error"), the level and the
\* dictionary bytes it stored, whether ServeTCP ran ("served") or panicked, the
\* dictionary the wrapper's encoder and decoder were built with, how often the
\* next handler was invoked and with what, and what a peer decoded from the
\* wrapper's encoder (probe).
Cfg0 == [algorithm |-> "zstd", level |-> "", dictionary |-> "", upstream |-> FALSE]

Probe0 == [peer |-> "none", sent |-> <<>>, err |-> "nil", out |-> <<>>]

H0 == [cfg |-> Cfg0, built |-> "none", level |-> "none", dict |-> "nil",
       serve |-> "none", edict |-> "nil", ddict |-> "nil", nexts |-> 0,
       arg |-> "none", probe |-> Probe0]

\* The two-pump zstdCompressor: the read pump's position, the units its
\* encoder is writing into the relay pipe (compressor_w) that Read has not
\* taken yet, which ends of that pipe are closed ("no", "w", "both"), the
\* encoder, the error that ended the pump, its wait group's counter, whether
\* an underlying Read gave (0, nil), the bytes the pump took from the
\* connection, and whether the peer has reset the connection.
P40 == [rp |-> "read", relay |-> <<>>, rclosed |-> "no", enc |-> Enc0,
        rerr |-> "nil", wg |-> 1, zero |-> FALSE, rdin |-> <<>>, reset |-> FALSE]

\* A call returns (n, err) to the application; l holds its locals.
ReturnOf(t, l, n, err) ==
    /\ ret' = [op |-> l.op, n |-> n, err |-> err, werr |-> l.werr,
               after |-> l.after, blk |-> l.blk, zero |-> l.zero,
               pos |-> l.pos, uerr |-> l.uerr, ucl |-> l.ucl, pdone |-> l.pdone]
    /\ pc' = [pc EXCEPT ![t] = "idle"]
    /\ loc' = [loc EXCEPT ![t] = Loc0]
    /\ g' = IF l.op = "Close" THEN [g EXCEPT !.closes = 1] ELSE g

Return(t, n, err) == ReturnOf(t, loc[t], n, err)

\* Where a write to the wrapped connection starts: the raw connection's Write,
\* or, in the pipeline, zstdCompressor.Write.
UWrite == IF topo = "pipe" THEN "ew_pipe" ELSE "u_write"

(* ---------------------- environment: peer and timer -------------------- *)
\* The peer sends the next chunk: compressed units to a decode-side wrapper,
\* plain bytes to an encode-side wrapper.
PeerSend ==
    /\ topo \in {"dec", "enc", "two"}
    /\ conn.closed = 0 /\ ~conn.rxEOF /\ conn.sent < MaxRx
    /\ LET b == <<(conn.sent + 1) % Cardinality(Byte)>>
           chunk == IF topo \in {"enc", "two"} THEN b
                    ELSE (IF conn.sent = 0 THEN <<Hdr>> ELSE <<>>) \o <<Blk(b)>>
       IN conn' = [conn EXCEPT !.rx = Append(@, chunk), !.sent = @ + 1]
    /\ UNCHANGED <<topo, h, p4, pc, loc, ret, calls, d, c, g>>

\* The peer closes its sending side: end-of-stream after what it sent.
PeerEOF ==
    /\ topo \in {"dec", "enc", "two"}
    /\ conn.closed = 0 /\ ~conn.rxEOF
    /\ conn' = [conn EXCEPT !.rxEOF = TRUE]
    /\ UNCHANGED <<topo, h, p4, pc, loc, ret, calls, d, c, g>>

\* The peer stops reading: from now on writes to it fail.
PeerCloseRead ==
    /\ topo \in {"dec", "enc", "two"}
    /\ conn.closed = 0 /\ ~conn.wbroken
    /\ conn' = [conn EXCEPT !.wbroken = TRUE]
    /\ UNCHANGED <<topo, h, p4, pc, loc, ret, calls, d, c, g>>

\* An armed deadline passes.
DeadlineExpire ==
    /\ conn.rdl = "armed" \/ conn.wdl = "armed"
    /\ conn' = [conn EXCEPT !.rdl = IF @ = "armed" THEN "expired" ELSE @,
                            !.wdl = IF @ = "armed" THEN "expired" ELSE @]
    /\ UNCHANGED <<topo, h, p4, pc, loc, ret, calls, d, c, g>>

\* The raw connection's Write returns: the peer took the bytes.
ConnWriteOk(t) ==
    /\ pc[t] = "u_write" /\ ConnCanWrite
    /\ conn' = [conn EXCEPT !.tx = @ \o loc[t].out]
    /\ loc' = [loc EXCEPT ![t].out = <<>>, ![t].err = "nil"]
    /\ pc' = [pc EXCEPT ![t] = loc[t].cont]
    /\ UNCHANGED <<topo, h, p4, ret, calls, d, c, g>>

\* The raw connection's Write fails: closed, half-closed or past its deadline.
ConnWriteErr(t) ==
    /\ pc[t] = "u_write" /\ ~ConnCanWrite
    /\ loc' = [loc EXCEPT ![t].out = <<>>, ![t].err = ConnIOErr(conn.wdl)]
    /\ pc' = [pc EXCEPT ![t] = loc[t].cont]
    /\ UNCHANGED <<topo, h, p4, ret, calls, conn, d, c, g>>

(* -------------------- zstdDecompressor (decode-side) ------------------- *)
\* A Read is blocked in the underlying connection's read, holding mu.
ReadBlocked(r) ==
    /\ pc[r] = "r_dec" /\ ~d.rclosed
    /\ ConnCanRead /\ conn.rx = <<>> /\ ~conn.rxEOF

\* A caller thread starts Read, Write(p), Close or CloseWrite.
DecCall(t) ==
    /\ topo = "dec" /\ pc[t] = "idle" /\ calls < MaxCalls
    /\ \E op \in {"Read", "Write", "Close", "CloseWrite"} :
       \E p \in (IF op = "Write" THEN Payloads ELSE {<<>>}) :
          /\ loc' = [loc EXCEPT ![t] = [Loc0 EXCEPT !.op = op, !.p = p,
                                                    !.after = (g.closes > 0),
                                                    !.pdone = conn.wclosed]]
          /\ pc' = [pc EXCEPT ![t] =
                       CASE op = "Read" -> "r_lock"
                         [] op = "Write" -> "w_lock"
                         [] op = "Close" -> "c_arm"
                         [] OTHER -> "cw_arm"]
    /\ calls' = calls + 1
    /\ UNCHANGED <<topo, h, p4, ret, conn, d, c, g>>

\* A Read that does not wait for the read mutex.
DecReadNoLock(t) ==
    /\ pc[t] = "r_lock"
    /\ d' = [d EXCEPT !.mu = t]
    /\ pc' = [pc EXCEPT ![t] = "r_dec"]
    /\ UNCHANGED <<topo, h, p4, loc, ret, calls, conn, c, g>>

\* Read: z.mu.Lock()
DecReadLock(t) ==
    /\ pc[t] = "r_lock" /\ d.mu = 0
    /\ d' = [d EXCEPT !.mu = t]
    /\ pc' = [pc EXCEPT ![t] = "r_dec"]
    /\ UNCHANGED <<topo, h, p4, loc, ret, calls, conn, c, g>>

\* Read: z.reader.Read(p) decodes the next chunk of the connection; mu.Unlock()
DecReadData(t) ==
    /\ pc[t] = "r_dec" /\ ~d.rclosed /\ ConnCanRead /\ conn.rx # <<>>
    /\ conn' = [conn EXCEPT !.rx = Tail(@)]
    /\ d' = [d EXCEPT !.mu = 0]
    /\ Return(t, Len(DecodeBlocks(Head(conn.rx))), "nil")
    /\ UNCHANGED <<topo, h, p4, calls, c>>

\* Read: the connection is at end-of-stream, closed or past its deadline, or
\* the decoder is closed: z.reader.Read(p) fails; mu.Unlock()
DecReadErr(t) ==
    /\ pc[t] = "r_dec"
    /\ d.rclosed \/ ~ConnCanRead \/ (conn.rx = <<>> /\ conn.rxEOF)
    /\ d' = [d EXCEPT !.mu = 0]
    /\ Return(t, 0, IF d.rclosed THEN "ErrDecoderClosed"
                    ELSE IF ~ConnCanRead THEN ConnIOErr(conn.rdl) ELSE "EOF")
    /\ UNCHANGED <<topo, h, p4, calls, conn, c>>

\* A Write that shares one mutex with Read: it waits for the read mutex too.
DecWriteOneLock(t) ==
    /\ pc[t] = "w_lock" /\ d.muW = 0 /\ d.mu = 0
    /\ d' = [d EXCEPT !.muW = t]
    /\ pc' = [pc EXCEPT ![t] = "w_enc"]
    /\ UNCHANGED <<topo, h, p4, loc, ret, calls, conn, c, g>>

\* Write: z.muW.Lock()
DecWriteLock(t) ==
    /\ pc[t] = "w_lock" /\ d.muW = 0
    /\ d' = [d EXCEPT !.muW = t]
    /\ pc' = [pc EXCEPT ![t] = "w_enc"]
    /\ UNCHANGED <<topo, h, p4, loc, ret, calls, conn, c, g>>

\* Write: n, err = z.writer.Write(p)
DecWriteEnc(t) ==
    /\ pc[t] = "w_enc"
    /\ LET r == EncoderWrite(d.enc, loc[t].p)
       IN /\ d' = [d EXCEPT !.enc = r.e]
          /\ g' = [g EXCEPT !.accepted = @ \o (IF r.err = "nil" THEN loc[t].p ELSE <<>>)]
          /\ loc' = [loc EXCEPT ![t].n = r.n, ![t].werr = r.err, ![t].err = r.err,
                                ![t].pos = Len(g.accepted) + r.n]
    /\ pc' = [pc EXCEPT ![t] = "w_flush"]
    /\ UNCHANGED <<topo, h, p4, ret, calls, conn, c>>

\* A Write that does not flush.
DecWriteNoFlush(t) ==
    /\ pc[t] = "w_flush"
    /\ loc' = [loc EXCEPT ![t].err = "nil"]
    /\ pc' = [pc EXCEPT ![t] = "w_ret"]
    /\ UNCHANGED <<topo, h, p4, ret, calls, conn, d, c, g>>

\* Write: err = z.writer.Flush() overwrites err; a block goes to the connection
\* when bytes are buffered.  Flush on a closed encoder reports nothing or
\* ErrEncoderClosed, depending on the codec's version.
DecWriteFlush(t) ==
    /\ pc[t] = "w_flush"
    /\ LET out == EncoderFlushOut(d.enc)
       IN IF out # <<>>
          THEN /\ loc' = [loc EXCEPT ![t].out = out, ![t].cont = "w_ret"]
               /\ d' = [d EXCEPT !.enc = EncoderFlushed(@)]
               /\ pc' = [pc EXCEPT ![t] = UWrite]
          ELSE /\ \E e \in EncoderIdleErrs(d.enc, FALSE) :
                     loc' = [loc EXCEPT ![t].err = e]
               /\ d' = d
               /\ pc' = [pc EXCEPT ![t] = "w_ret"]
    /\ UNCHANGED <<topo, h, p4, ret, calls, conn, c, g>>

\* Write: if err != nil { return 0, err }; return n, err; muW.Unlock()
DecWriteRet(t) ==
    /\ pc[t] = "w_ret"
    /\ d' = [d EXCEPT !.muW = 0, !.enc = EncoderFailed(@, loc[t].err)]
    /\ IF loc[t].err # "nil" THEN Return(t, 0, loc[t].err)
                             ELSE Return(t, loc[t].n, "nil")
    /\ UNCHANGED <<topo, h, p4, calls, conn, c>>

\* A Close that arms no deadline.
DecCloseNoArm(t) ==
    /\ pc[t] = "c_arm"
    /\ loc' = [loc EXCEPT ![t].blk = (\E r \in Threads : ReadBlocked(r))]
    /\ pc' = [pc EXCEPT ![t] = "c_mu"]
    /\ UNCHANGED <<topo, h, p4, ret, calls, conn, d, c, g>>

\* Close: z.WriteCloser.SetDeadline(now + 10ms), before any mutex is taken
DecCloseArm(t) ==
    /\ pc[t] = "c_arm"
    /\ conn' = [conn EXCEPT !.rdl = Arm(@), !.wdl = Arm(@)]
    /\ loc' = [loc EXCEPT ![t].blk = (\E r \in Threads : ReadBlocked(r))]
    /\ pc' = [pc EXCEPT ![t] = "c_mu"]
    /\ UNCHANGED <<topo, h, p4, ret, calls, d, c, g>>

\* Close: z.mu.Lock()
DecCloseLockMu(t) ==
    /\ pc[t] = "c_mu" /\ d.mu = 0
    /\ d' = [d EXCEPT !.mu = t]
    /\ pc' = [pc EXCEPT ![t] = "c_muW"]
    /\ UNCHANGED <<topo, h, p4, loc, ret, calls, conn, c, g>>

\* A Close that goes on without the write mutex.
DecCloseSkipMuW(t) ==
    /\ pc[t] = "c_muW"
    /\ d' = [d EXCEPT !.muW = IF @ = 0 THEN t ELSE @]
    /\ pc' = [pc EXCEPT ![t] = "c_wclose"]
    /\ UNCHANGED <<topo, h, p4, loc, ret, calls, conn, c, g>>

\* Close: z.muW.Lock()
DecCloseLockMuW(t) ==
    /\ pc[t] = "c_muW" /\ d.muW = 0
    /\ d' = [d EXCEPT !.muW = t]
    /\ pc' = [pc EXCEPT ![t] = "c_wclose"]
    /\ UNCHANGED <<topo, h, p4, loc, ret, calls, conn, c, g>>

\* Close: writerErr := z.writer.Close() sends what is buffered and the end of
\* the frame to the connection
DecCloseWriter(t) ==
    /\ pc[t] = "c_wclose"
    /\ LET out == EncoderCloseOut(d.enc)
       IN IF out # <<>>
          THEN /\ loc' = [loc EXCEPT ![t].out = out, ![t].cont = "c_uclose"]
               /\ pc' = [pc EXCEPT ![t] = UWrite]
          ELSE /\ \E e \in EncoderIdleErrs(d.enc, TRUE) :
                     loc' = [loc EXCEPT ![t].err = e]
               /\ pc' = [pc EXCEPT ![t] = "c_uclose"]
    /\ d' = [d EXCEPT !.enc = EncoderClosed(@)]
    /\ UNCHANGED <<topo, h, p4, ret, calls, conn, c, g>>

\* A Close that returns the encoder's error without closing the connection.
DecCloseConnEarly(t) ==
    /\ pc[t] = "c_uclose"
    /\ d' = [d EXCEPT !.enc = EncoderFailed(@, loc[t].err)]
    /\ IF loc[t].err # "nil"
       THEN /\ loc' = [loc EXCEPT ![t].werr = loc[t].err, ![t].err = "nil"]
            /\ conn' = conn
       ELSE /\ \E r \in ConnCloseResults :
                  loc' = [loc EXCEPT ![t].err = r, ![t].ucl = @ + 1]
            /\ conn' = [conn EXCEPT !.closed = IF @ = 0 THEN 1 ELSE 2]
    /\ pc' = [pc EXCEPT ![t] = "c_rclose"]
    /\ UNCHANGED <<topo, h, p4, ret, calls, c, g>>

\* Close: err := z.WriteCloser.Close(): the raw connection's Close, or, in the
\* pipeline, zstdCompressor.Close
DecCloseConn(t) ==
    /\ pc[t] = "c_uclose"
    /\ d' = [d EXCEPT !.enc = EncoderFailed(@, loc[t].err)]
    /\ IF topo = "pipe"
       THEN /\ loc' = [loc EXCEPT ![t].werr = loc[t].err, ![t].cont = "c_rclose",
                                      ![t].ucl = @ + 1]
            /\ pc' = [pc EXCEPT ![t] = "ec_start"]
            /\ conn' = conn
       ELSE /\ \E r \in ConnCloseResults :
                  loc' = [loc EXCEPT ![t].werr = loc[t].err, ![t].err = r,
                                     ![t].ucl = @ + 1]
            /\ conn' = [conn EXCEPT !.closed = IF @ = 0 THEN 1 ELSE 2]
            /\ pc' = [pc EXCEPT ![t] = "c_rclose"]
    /\ UNCHANGED <<topo, h, p4, ret, calls, c, g>>

\* A Close that returns the encoder's error first.
DecCloseRetWriterFirst(t) ==
    /\ pc[t] = "c_rclose"
    /\ d' = [d EXCEPT !.rclosed = TRUE, !.mu = 0, !.muW = 0]
    /\ ReturnOf(t, [loc[t] EXCEPT !.uerr = loc[t].err], 0,
                IF loc[t].werr # "nil" THEN loc[t].werr ELSE loc[t].err)
    /\ UNCHANGED <<topo, h, p4, calls, conn, c>>

\* Close: the deferred z.reader.Close(), muW.Unlock(), mu.Unlock(); the result
\* is writerErr when only the encoder failed, else the connection's error
DecCloseRet(t) ==
    /\ pc[t] = "c_rclose"
    /\ d' = [d EXCEPT !.rclosed = TRUE, !.mu = 0, !.muW = 0]
    /\ ReturnOf(t, [loc[t] EXCEPT !.uerr = loc[t].err], 0,
                IF loc[t].werr # "nil" /\ loc[t].err = "nil"
                THEN loc[t].werr ELSE loc[t].err)
    /\ UNCHANGED <<topo, h, p4, calls, conn, c>>

\* A CloseWrite that arms the read deadline too.
DecCloseWriteArmBoth(t) ==
    /\ pc[t] = "cw_arm"
    /\ conn' = [conn EXCEPT !.rdl = Arm(@), !.wdl = Arm(@)]
    /\ pc' = [pc EXCEPT ![t] = "cw_muW"]
    /\ UNCHANGED <<topo, h, p4, loc, ret, calls, d, c, g>>

\* CloseWrite: z.WriteCloser.SetWriteDeadline(now + 10ms)
DecCloseWriteArm(t) ==
    /\ pc[t] = "cw_arm"
    /\ conn' = [conn EXCEPT !.wdl = Arm(@)]
    /\ pc' = [pc EXCEPT ![t] = "cw_muW"]
    /\ UNCHANGED <<topo, h, p4, loc, ret, calls, d, c, g>>

\* A CloseWrite that takes the write mutex and then the read mutex.
DecCloseWriteLockBoth(t) ==
    /\ pc[t] = "cw_muW"
    /\ \/ /\ d.muW = 0
          /\ d' = [d EXCEPT !.muW = t]
          /\ pc' = pc
       \/ /\ d.muW = t /\ d.mu = 0
          /\ d' = [d EXCEPT !.mu = t]
          /\ pc' = [pc EXCEPT ![t] = "cw_wclose"]
    /\ UNCHANGED <<topo, h, p4, loc, ret, calls, conn, c, g>>

\* CloseWrite: z.muW.Lock()
DecCloseWriteLock(t) ==
    /\ pc[t] = "cw_muW" /\ d.muW = 0
    /\ d' = [d EXCEPT !.muW = t]
    /\ pc' = [pc EXCEPT ![t] = "cw_wclose"]
    /\ UNCHANGED <<topo, h, p4, loc, ret, calls, conn, c, g>>

\* A CloseWrite that half-closes the connection before it closes the encoder.
DecCloseWriteHalfFirst(t) ==
    /\ pc[t] = "cw_wclose"
    /\ conn' = [conn EXCEPT !.wclosed = (@ \/ conn.closed = 0)]
    /\ LET out == EncoderCloseOut(d.enc)
       IN IF out # <<>>
          THEN /\ loc' = [loc EXCEPT ![t].out = out, ![t].cont = "cw_uclose"]
               /\ pc' = [pc EXCEPT ![t] = UWrite]
          ELSE /\ \E e \in EncoderIdleErrs(d.enc, TRUE) :
                     loc' = [loc EXCEPT ![t].err = e]
               /\ pc' = [pc EXCEPT ![t] = "cw_uclose"]
    /\ d' = [d EXCEPT !.enc = EncoderClosed(@)]
    /\ UNCHANGED <<topo, h, p4, ret, calls, c, g>>

\* CloseWrite: writerErr := z.writer.Close()
DecCloseWriteWriter(t) ==
    /\ pc[t] = "cw_wclose"
    /\ LET out == EncoderCloseOut(d.enc)
       IN IF out # <<>>
          THEN /\ loc' = [loc EXCEPT ![t].out = out, ![t].cont = "cw_uclose"]
               /\ pc' = [pc EXCEPT ![t] = UWrite]
          ELSE /\ \E e \in EncoderIdleErrs(d.enc, TRUE) :
                     loc' = [loc EXCEPT ![t].err = e]
               /\ pc' = [pc EXCEPT ![t] = "cw_uclose"]
    /\ d' = [d EXCEPT !.enc = EncoderClosed(@)]
    /\ UNCHANGED <<topo, h, p4, ret, calls, conn, c, g>>

\* CloseWrite: err := z.WriteCloser.CloseWrite(); muW.Unlock(); same result
\* rule as Close
DecCloseWriteRet(t) ==
    /\ pc[t] = "cw_uclose"
    /\ d' = [d EXCEPT !.muW = 0, !.enc = EncoderFailed(@, loc[t].err)]
    /\ conn' = [conn EXCEPT !.wclosed = (@ \/ conn.closed = 0)]
    /\ LET err == IF conn.closed > 0 THEN "ErrUseOfClosed" ELSE "nil"
       IN ReturnOf(t, [loc[t] EXCEPT !.werr = loc[t].err, !.uerr = err], 0,
                   IF loc[t].err # "nil" /\ err = "nil" THEN loc[t].err ELSE err)
    /\ UNCHANGED <<topo, h, p4, calls, c>>

DecStep(t) ==
    \/ DecReadLock(t) \/ DecReadData(t) \/ DecReadErr(t)
    \/ DecWriteLock(t) \/ DecWriteEnc(t) \/ DecWriteFlush(t) \/ DecWriteRet(t)
    \/ DecCloseArm(t) \/ DecCloseLockMu(t) \/ DecCloseLockMuW(t)
    \/ DecCloseWriter(t) \/ DecCloseConn(t) \/ DecCloseRet(t)
    \/ DecCloseWriteArm(t) \/ DecCloseWriteLock(t) \/ DecCloseWriteWriter(t)
    \/ DecCloseWriteRet(t)
    \/ ConnWriteErr(t)

(* --------------------- zstdCompressor (encode-side) -------------------- *)
\* The pump's decoder over the units of one pipe read: the decoded bytes, the
\* decoder's place in the stream, and whether the input was malformed.
RECURSIVE PumpDecode(_, _)
PumpDecode(st, us) ==
    IF us = <<>> THEN [st |-> st, out |-> <<>>, bad |-> FALSE]
    ELSE LET u == Head(us)
             ok == \/ u.k = "hdr" /\ st = "fresh"
                   \/ u.k \in {"blk", "end"} /\ st = "frame"
             st2 == IF u.k = "end" THEN "fresh" ELSE "frame"
             rest == PumpDecode(st2, Tail(us))
         IN IF ~ok THEN [st |-> st, out |-> <<>>, bad |-> TRUE]
            ELSE [st |-> rest.st, out |-> DecodeBlocks(<<u>>) \o rest.out,
                  bad |-> rest.bad]

PipeClosed == c.pipe.wclosed \/ c.pipe.rclosed

\* A method of zstdCompressor returns: to the application, or, in the
\* pipeline, into the zstdDecompressor call that made it.
CRet(t, n, err) ==
    IF loc[t].cont = "idle"
    THEN Return(t, n, err)
    ELSE /\ pc' = [pc EXCEPT ![t] = loc[t].cont]
         /\ loc' = [loc EXCEPT ![t].err = err, ![t].out = <<>>]
         /\ UNCHANGED <<ret, g>>

\* The k-th chunk of the compressed stream the application writes.
AppChunk(k) == (IF k = 0 THEN <<Hdr>> ELSE <<>>) \o <<Blk(<<k + 1>>)>>

\* A caller thread starts Read (into a buffer of cap units), Write(chunk),
\* Close or CloseWrite.
EncCall(t) ==
    /\ topo = "enc" /\ pc[t] = "idle" /\ calls < MaxCalls
    /\ \E op \in {"Read", "Write", "Close", "CloseWrite"} :
       \E cap \in (IF op = "Read" THEN {1, 2} ELSE {0}) :
          /\ loc' = [loc EXCEPT ![t] =
                       [Loc0 EXCEPT !.op = op, !.n = cap, !.after = (g.closes > 0),
                                    !.pdone = (c.pump # "run"),
                                    !.out = IF op = "Write" THEN AppChunk(g.wsent)
                                            ELSE <<>>]]
          /\ g' = [g EXCEPT !.wsent = IF op = "Write" THEN @ + 1 ELSE @]
          /\ pc' = [pc EXCEPT ![t] =
                       CASE op = "Read" -> "er_start"
                         [] op = "Write" -> "ew_pipe"
                         [] op = "Close" -> "ec_start"
                         [] OTHER -> "ecw_start"]
    /\ calls' = calls + 1
    /\ UNCHANGED <<topo, h, p4, ret, conn, d, c>>

\* write pump: the decoder of z.reader.WriteTo(conn) reads what a Write put
\* into the pipe and queues the decoded bytes.  The decoder may read ahead of
\* the writes to the connection (it decodes in goroutines of its own unless it
\* runs with one thread).
PumpRead ==
    /\ c.pump = "run" /\ c.pin = "open" /\ ~PipeClosed /\ c.pipe.data # <<>>
    /\ LET r == PumpDecode(c.pdec, c.pipe.data)
       IN c' = [c EXCEPT !.pipe.data = <<>>, !.pdec = r.st,
                         !.pq = IF r.out = <<>> THEN @ ELSE Append(@, r.out),
                         !.pin = IF r.bad THEN "bad" ELSE "open"]
    /\ UNCHANGED <<topo, h, p4, pc, loc, ret, calls, conn, d, g>>

\* A pump that drops what it has decoded and not yet written when its input
\* ends.
PumpEOFDrop ==
    /\ c.pump = "run" /\ c.pin = "open" /\ PipeClosed
    /\ c' = [c EXCEPT !.pin = "eof", !.pq = <<>>]
    /\ UNCHANGED <<topo, h, p4, pc, loc, ret, calls, conn, d, g>>

\* write pump: the pipe is closed, the decoder's input ends
PumpEOF ==
    /\ c.pump = "run" /\ c.pin = "open" /\ PipeClosed
    /\ c' = [c EXCEPT !.pin = "eof"]
    /\ UNCHANGED <<topo, h, p4, pc, loc, ret, calls, conn, d, g>>

\* write pump: conn.Write of the next decoded bytes returns, the peer took them
PumpConnWriteOk ==
    /\ c.pump = "run" /\ c.pq # <<>> /\ ConnCanWrite
    /\ conn' = [conn EXCEPT !.tx = @ \o Head(c.pq)]
    /\ c' = [c EXCEPT !.pq = Tail(@)]
    /\ UNCHANGED <<topo, h, p4, pc, loc, ret, calls, d, g>>

\* write pump: conn.Write fails, WriteTo drops what is queued and returns the
\* error, which is logged
PumpConnWriteErr ==
    /\ c.pump = "run" /\ c.pq # <<>> /\ ~ConnCanWrite
    /\ c' = [c EXCEPT !.pq = <<>>, !.pump = "exit", !.werr = TRUE]
    /\ UNCHANGED <<topo, h, p4, pc, loc, ret, calls, conn, d, g>>

\* A pump that returns at the end of its input without writing what it has
\* decoded.
PumpReturnEarly ==
    /\ c.pump = "run" /\ c.pin # "open"
    /\ c' = [c EXCEPT !.pq = <<>>, !.pump = "exit"]
    /\ UNCHANGED <<topo, h, p4, pc, loc, ret, calls, conn, d, g>>

\* write pump: everything decoded is written and the input ended or was
\* malformed, WriteTo returns
PumpReturn ==
    /\ c.pump = "run" /\ c.pq = <<>> /\ c.pin # "open"
    /\ c' = [c EXCEPT !.pump = "exit"]
    /\ UNCHANGED <<topo, h, p4, pc, loc, ret, calls, conn, d, g>>

\* A pump that signals its wait group and leaves the pipe open.
PumpExitNoClose ==
    /\ c.pump = "exit"
    /\ c' = [c EXCEPT !.pump = "done", !.wg = 0]
    /\ UNCHANGED <<topo, h, p4, pc, loc, ret, calls, conn, d, g>>

\* write pump, deferred: both pipe ends closed with io.EOF, z.reader.Close(),
\* z.writeWaitGroup.Done()
PumpExit ==
    /\ c.pump = "exit"
    /\ c' = [c EXCEPT !.pipe.wclosed = TRUE, !.pipe.rclosed = TRUE,
                      !.pump = "done", !.wg = 0]
    /\ UNCHANGED <<topo, h, p4, pc, loc, ret, calls, conn, d, g>>

\* A Write that reports success on a closed pipe.
EncWritePipeNoErr(t) ==
    /\ pc[t] = "ew_pipe"
    /\ IF PipeClosed
       THEN /\ CRet(t, Len(loc[t].out), "nil")
            /\ c' = c
       ELSE /\ c.pipe.writer = 0
            /\ c' = [c EXCEPT !.pipe.data = loc[t].out, !.pipe.writer = t]
            /\ pc' = [pc EXCEPT ![t] = "ew_wait"]
            /\ UNCHANGED <<loc, ret, g>>
    /\ UNCHANGED <<topo, h, p4, calls, conn, d>>

\* Write: z.writerW.Write(p) hands p to the pipe, or fails on a closed pipe
EncWritePipe(t) ==
    /\ pc[t] = "ew_pipe"
    /\ IF PipeClosed
       THEN /\ CRet(t, 0, "ErrClosedPipe")
            /\ c' = c
       ELSE /\ c.pipe.writer = 0
            /\ c' = [c EXCEPT !.pipe.data = loc[t].out, !.pipe.writer = t]
            /\ pc' = [pc EXCEPT ![t] = "ew_wait"]
            /\ UNCHANGED <<loc, ret, g>>
    /\ UNCHANGED <<topo, h, p4, calls, conn, d>>

\* Write: the pump has read all of p: return n, nil
EncWriteDone(t) ==
    /\ pc[t] = "ew_wait" /\ c.pipe.writer = t /\ c.pipe.data = <<>>
    /\ c' = [c EXCEPT !.pipe.writer = 0, !.wacc = @ \o DecodeBlocks(loc[t].out)]
    /\ CRet(t, Len(loc[t].out), "nil")
    /\ UNCHANGED <<topo, h, p4, calls, conn, d>>

\* Write: the pipe was closed before the pump read p: return 0, err
EncWriteClosed(t) ==
    /\ pc[t] = "ew_wait" /\ c.pipe.writer = t /\ c.pipe.data # <<>> /\ PipeClosed
    /\ c' = [c EXCEPT !.pipe.writer = 0, !.pipe.data = <<>>]
    /\ CRet(t, 0, "ErrClosedPipe")
    /\ UNCHANGED <<topo, h, p4, calls, conn, d>>

\* Read: if z.readBuffer.Len() == 0
EncReadCheck(t) ==
    /\ pc[t] = "er_start"
    /\ pc' = [pc EXCEPT ![t] = IF c.buf = <<>> THEN "er_conn" ELSE "er_buf"]
    /\ UNCHANGED <<topo, h, p4, loc, ret, calls, conn, d, c, g>>

\* Read: z.WriteCloser.Read gives a chunk of n > 0 bytes, with end-of-stream
\* or without when it is the last one
EncReadConnData(t) ==
    /\ pc[t] = "er_conn" /\ ConnCanRead /\ conn.rx # <<>>
    /\ conn' = [conn EXCEPT !.rx = Tail(@)]
    /\ \E e \in (IF conn.rxEOF /\ Tail(conn.rx) = <<>> THEN {"nil", "EOF"}
                  ELSE {"nil"}) :
          loc' = [loc EXCEPT ![t].p = Head(conn.rx), ![t].err = e]
    /\ c' = [c EXCEPT !.rdin = @ \o Head(conn.rx)]
    /\ pc' = [pc EXCEPT ![t] = "er_enc"]
    /\ UNCHANGED <<topo, h, p4, ret, calls, d, g>>

\* Read: z.WriteCloser.Read gives (0, io.EOF); the relay buffer is empty here
\* unless another Read filled it meanwhile
EncReadConnEOF(t) ==
    /\ pc[t] = "er_conn" /\ ConnCanRead /\ conn.rx = <<>> /\ conn.rxEOF
    /\ IF c.buf = <<>>
       THEN Return(t, 0, "EOF")
       ELSE /\ pc' = [pc EXCEPT ![t] = "er_buf"]
            /\ UNCHANGED <<loc, ret, g>>
    /\ UNCHANGED <<topo, h, p4, calls, conn, d, c>>

\* What an underlying Read that fails leaves of the connection's input: it
\* may have taken the next chunk (n > 0 together with the error).
ConnAfterReadErr ==
    {conn} \cup (IF conn.rx # <<>> THEN {[conn EXCEPT !.rx = Tail(@)]} ELSE {})

\* A Read that puts the bytes that came together with an error into the relay
\* buffer.
EncReadConnErrKeep(t) ==
    /\ pc[t] = "er_conn" /\ ~ConnCanRead
    /\ conn' \in ConnAfterReadErr
    /\ c' = IF conn' = conn THEN c
            ELSE [c EXCEPT !.buf = @ \o <<Blk(Head(conn.rx))>>]
    /\ Return(t, 0, ConnIOErr(conn.rdl))
    /\ UNCHANGED <<topo, h, p4, calls, d>>

\* Read: z.WriteCloser.Read fails with an error other than io.EOF, with or
\* without bytes; if err != nil && err != io.EOF { return 0, err }
EncReadConnErr(t) ==
    /\ pc[t] = "er_conn" /\ ~ConnCanRead
    /\ conn' \in ConnAfterReadErr
    /\ Return(t, 0, ConnIOErr(conn.rdl))
    /\ UNCHANGED <<topo, h, p4, calls, d, c>>

\* Read: z.WriteCloser.Read gives (0, nil), as io.Reader allows
EncReadConnZero(t) ==
    /\ pc[t] = "er_conn" /\ ConnCanRead /\ conn.rx = <<>> /\ ~conn.rxEOF
    /\ loc' = [loc EXCEPT ![t].zero = TRUE]
    /\ pc' = [pc EXCEPT ![t] = "er_buf"]
    /\ UNCHANGED <<topo, h, p4, ret, calls, conn, d, c, g>>

\* Read: z.writer.Write(uncompressedData[:n])
EncReadEnc(t) ==
    /\ pc[t] = "er_enc"
    /\ LET r == EncoderWrite(c.enc, loc[t].p)
       IN IF r.err # "nil"
          THEN /\ Return(t, 0, r.err)
               /\ c' = c
          ELSE /\ c' = [c EXCEPT !.enc = r.e]
               /\ pc' = [pc EXCEPT ![t] = "er_flush"]
               /\ UNCHANGED <<loc, ret, g>>
    /\ UNCHANGED <<topo, h, p4, calls, conn, d>>

\* Read: z.writer.Flush() puts the block into readBuffer, or fails when a
\* concurrent Close closed the encoder in between; then
\* if err == io.EOF && z.readBuffer.Len() == 0 { return 0, io.EOF }
EncReadFlush(t) ==
    /\ pc[t] = "er_flush"
    /\ LET buf2 == c.buf \o EncoderFlushOut(c.enc)
       IN \E e \in EncoderIdleErrs(c.enc, FALSE) :
             /\ c' = [c EXCEPT !.buf = buf2, !.enc = EncoderFlushed(@)]
             /\ IF e # "nil"
                THEN Return(t, 0, e)
                ELSE IF loc[t].err = "EOF" /\ buf2 = <<>>
                THEN Return(t, 0, "EOF")
                ELSE /\ pc' = [pc EXCEPT ![t] = "er_buf"]
                     /\ UNCHANGED <<loc, ret, g>>
    /\ UNCHANGED <<topo, h, p4, calls, conn, d>>

\* Read: return z.readBuffer.Read(p); bytes.Buffer gives (0, io.EOF) when empty
EncReadBuf(t) ==
    /\ pc[t] = "er_buf"
    /\ LET k == IF Len(c.buf) < loc[t].n THEN Len(c.buf) ELSE loc[t].n
       IN /\ c' = [c EXCEPT !.buf = SubSeq(@, k + 1, Len(@))]
          /\ IF c.buf = <<>>
             THEN Return(t, 0, "EOF")
             ELSE /\ ret' = [Ret0 EXCEPT !.op = "Read", !.n = k,
                                         !.zero = loc[t].zero,
                                         !.after = loc[t].after,
                                         !.pdone = loc[t].pdone]
                  /\ g' = [g EXCEPT !.rd = @ \o SubSeq(c.buf, 1, k)]
                  /\ pc' = [pc EXCEPT ![t] = "idle"]
                  /\ loc' = [loc EXCEPT ![t] = Loc0]
    /\ UNCHANGED <<topo, h, p4, calls, conn, d>>

\* Close: z.writerW.CloseWithError(io.EOF)
EncCloseStart(t) ==
    /\ pc[t] = "ec_start"
    /\ c' = [c EXCEPT !.pipe.wclosed = TRUE]
    /\ pc' = [pc EXCEPT ![t] = "ec_wait"]
    /\ UNCHANGED <<topo, h, p4, loc, ret, calls, conn, d, g>>

\* A Close that does not wait for the write pump.
EncCloseNoWait(t) ==
    /\ pc[t] = "ec_wait"
    /\ pc' = [pc EXCEPT ![t] = "ec_wclose"]
    /\ UNCHANGED <<topo, h, p4, loc, ret, calls, conn, d, c, g>>

\* Close: z.writeWaitGroup.Wait()
EncCloseWait(t) ==
    /\ pc[t] = "ec_wait" /\ c.wg = 0
    /\ pc' = [pc EXCEPT ![t] = "ec_wclose"]
    /\ UNCHANGED <<topo, h, p4, loc, ret, calls, conn, d, c, g>>

\* Close: writerErr := z.writer.Close() ends the frame in readBuffer
EncCloseWriter(t) ==
    /\ pc[t] = "ec_wclose"
    /\ c' = [c EXCEPT !.buf = @ \o EncoderCloseOut(c.enc), !.enc = EncoderClosed(@)]
    /\ pc' = [pc EXCEPT ![t] = "ec_uclose"]
    /\ UNCHANGED <<topo, h, p4, loc, ret, calls, conn, d, g>>

\* Close: err := z.WriteCloser.Close(); writerErr is nil here, so return err
EncCloseConn(t) ==
    /\ pc[t] = "ec_uclose"
    /\ conn' = [conn EXCEPT !.closed = IF @ = 0 THEN 1 ELSE 2]
    /\ \E r \in ConnCloseResults :
          IF loc[t].cont = "idle"
          THEN ReturnOf(t, [loc[t] EXCEPT !.uerr = r, !.ucl = @ + 1], 0, r)
          ELSE CRet(t, 0, r)
    /\ UNCHANGED <<topo, h, p4, calls, d, c>>

\* CloseWrite: z.writerW.CloseWithError(io.EOF)
EncCloseWriteStart(t) ==
    /\ pc[t] = "ecw_start"
    /\ c' = [c EXCEPT !.pipe.wclosed = TRUE]
    /\ pc' = [pc EXCEPT ![t] = "ecw_wait"]
    /\ UNCHANGED <<topo, h, p4, loc, ret, calls, conn, d, g>>

\* A CloseWrite that does not wait for the write pump.
EncCloseWriteNoWait(t) ==
    /\ pc[t] = "ecw_wait"
    /\ conn' = [conn EXCEPT !.wclosed = (@ \/ conn.closed = 0)]
    /\ LET err == IF conn.closed > 0 THEN "ErrUseOfClosed" ELSE "nil"
       IN ReturnOf(t, [loc[t] EXCEPT !.uerr = err], 0, err)
    /\ UNCHANGED <<topo, h, p4, calls, d, c>>

\* CloseWrite: z.writeWaitGroup.Wait(); return z.WriteCloser.CloseWrite()
EncCloseWriteRet(t) ==
    /\ pc[t] = "ecw_wait" /\ c.wg = 0
    /\ conn' = [conn EXCEPT !.wclosed = (@ \/ conn.closed = 0)]
    /\ LET err == IF conn.closed > 0 THEN "ErrUseOfClosed" ELSE "nil"
       IN ReturnOf(t, [loc[t] EXCEPT !.uerr = err], 0, err)
    /\ UNCHANGED <<topo, h, p4, calls, d, c>>

EncStep(t) ==
    \/ EncWritePipe(t) \/ EncWriteDone(t) \/ EncWriteClosed(t)
    \/ EncReadCheck(t) \/ EncReadConnData(t) \/ EncReadConnEOF(t)
    \/ EncReadConnErr(t) \/ EncReadEnc(t) \/ EncReadFlush(t) \/ EncReadBuf(t)
    \/ EncCloseStart(t) \/ EncCloseWait(t) \/ EncCloseWriter(t) \/ EncCloseConn(t)
    \/ EncCloseWriteStart(t) \/ EncCloseWriteRet(t)

PumpStep == PumpRead \/ PumpEOF \/ PumpConnWriteErr \/ PumpReturn \/ PumpExit

(* ------------- zstdCompressor with two pumps (earlier variant) --------- *)
\* The peer resets the connection: reads on it fail from now on.
PeerReset ==
    /\ topo = "two" /\ conn.closed = 0 /\ ~p4.reset
    /\ p4' = [p4 EXCEPT !.reset = TRUE]
    /\ UNCHANGED <<topo, h, pc, loc, ret, calls, conn, d, c, g>>

\* A caller thread starts Read (into a buffer of cap units), Write(chunk),
\* Close or CloseWrite.
TwoCall(t) ==
    /\ topo = "two" /\ pc[t] = "idle" /\ calls < MaxCalls
    /\ \E op \in {"Read", "Write", "Close", "CloseWrite"} :
       \E cap \in (IF op = "Read" THEN {1, 2} ELSE {0}) :
          /\ loc' = [loc EXCEPT ![t] =
                       [Loc0 EXCEPT !.op = op, !.n = cap, !.after = (g.closes > 0),
                                    !.pdone = (p4.rp \notin {"read", "flush"}),
                                    !.out = IF op = "Write" THEN AppChunk(g.wsent)
                                            ELSE <<>>]]
          /\ g' = [g EXCEPT !.wsent = IF op = "Write" THEN @ + 1 ELSE @]
          /\ pc' = [pc EXCEPT ![t] =
                       CASE op = "Read" -> "tr_read"
                         [] op = "Write" -> "ew_pipe"
                         [] op = "Close" -> "tc_start"
                         [] OTHER -> "ecw_start"]
    /\ calls' = calls + 1
    /\ UNCHANGED <<topo, h, p4, ret, conn, d, c>>

\* What conn.Read returns when it returns an error.
ConnReadErr ==
    IF conn.closed > 0 THEN "ErrUseOfClosed"
    ELSE IF conn.rdl = "expired" THEN "ErrTimeout"
    ELSE IF p4.reset THEN "ErrConnReset"
    ELSE "EOF"

\* A read pump that compresses a chunk and goes on to the next read without
\* flushing.
RPumpReadNoFlush ==
    /\ topo = "two" /\ p4.rp = "read"
    /\ ConnCanRead /\ ~p4.reset /\ conn.rx # <<>>
    /\ conn' = [conn EXCEPT !.rx = Tail(@)]
    /\ p4' = [p4 EXCEPT !.enc = EncoderWrite(p4.enc, Head(conn.rx)).e,
                        !.rdin = @ \o Head(conn.rx)]
    /\ UNCHANGED <<topo, h, pc, loc, ret, calls, d, c, g>>

\* read pump: n, err := conn.Read(tmp) gives a chunk; z.compressor.Write and
\* z.compressor.Flush(), whose block the encoder writes into the relay pipe,
\* where the write waits for the caller's Read
RPumpRead ==
    /\ topo = "two" /\ p4.rp = "read"
    /\ ConnCanRead /\ ~p4.reset /\ conn.rx # <<>>
    /\ conn' = [conn EXCEPT !.rx = Tail(@)]
    /\ LET e == EncoderWrite(p4.enc, Head(conn.rx)).e
       IN p4' = [p4 EXCEPT !.enc = EncoderFlushed(e),
                           !.relay = EncoderFlushOut(e),
                           !.rdin = @ \o Head(conn.rx), !.rp = "flush"]
    /\ UNCHANGED <<topo, h, pc, loc, ret, calls, d, c, g>>

\* read pump: conn.Read gives (0, nil); if n == 0 { continue }
RPumpZero ==
    /\ topo = "two" /\ p4.rp = "read" /\ ~p4.zero
    /\ ConnCanRead /\ ~p4.reset /\ conn.rx = <<>> /\ ~conn.rxEOF
    /\ p4' = [p4 EXCEPT !.zero = TRUE]
    /\ UNCHANGED <<topo, h, pc, loc, ret, calls, conn, d, c, g>>

\* read pump: conn.Read gives an error (end-of-stream, a passed deadline, a
\* reset or closed connection); if err != nil { return }
RPumpReadErr ==
    /\ topo = "two" /\ p4.rp = "read"
    /\ ~ConnCanRead \/ p4.reset \/ (conn.rx = <<>> /\ conn.rxEOF)
    /\ p4' = [p4 EXCEPT !.rerr = ConnReadErr, !.rp = "closing"]
    /\ UNCHANGED <<topo, h, pc, loc, ret, calls, conn, d, c, g>>

\* read pump: the relay pipe's Write inside Flush returns once Read has taken
\* all of it; the loop goes on to the next conn.Read
RPumpFlushed ==
    /\ topo = "two" /\ p4.rp = "flush" /\ p4.relay = <<>>
    /\ p4' = [p4 EXCEPT !.rp = "read"]
    /\ UNCHANGED <<topo, h, pc, loc, ret, calls, conn, d, c, g>>

\* read pump, deferred: compressor_w.CloseWithError(io.EOF)
RPumpCloseW ==
    /\ topo = "two" /\ p4.rp = "closing"
    /\ p4' = [p4 EXCEPT !.rclosed = "w", !.rp = "closed_w"]
    /\ UNCHANGED <<topo, h, pc, loc, ret, calls, conn, d, c, g>>

\* read pump, deferred: compressor_r.CloseWithError(io.EOF);
\* z.compressor.Close(), which has no open pipe to write to;
\* z.waitGroup.Done()
RPumpExit ==
    /\ topo = "two" /\ p4.rp = "closed_w"
    /\ p4' = [p4 EXCEPT !.rclosed = "both", !.enc = EncoderClosed(@),
                        !.wg = 0, !.rp = "done"]
    /\ UNCHANGED <<topo, h, pc, loc, ret, calls, conn, d, c, g>>

RPumpStep ==
    RPumpRead \/ RPumpZero \/ RPumpReadErr \/ RPumpFlushed \/ RPumpCloseW
    \/ RPumpExit

\* Read: return z.compressor_r.Read(p).  It takes what fits of the pending
\* pipe write; on a pipe whose write end alone is closed it gives the error the
\* write end was closed with, io.EOF, and once the read end is closed too
\* io.ErrClosedPipe; otherwise it waits.
TwoRead(t) ==
    /\ pc[t] = "tr_read"
    /\ p4.relay # <<>> \/ p4.rclosed # "no"
    /\ LET k == IF Len(p4.relay) < loc[t].n THEN Len(p4.relay) ELSE loc[t].n
           err == IF p4.relay # <<>> THEN "nil"
                  ELSE IF p4.rclosed = "w" THEN "EOF" ELSE "ErrClosedPipe"
       IN /\ p4' = [p4 EXCEPT !.relay = SubSeq(@, k + 1, Len(@))]
          /\ ret' = [Ret0 EXCEPT !.op = "Read", !.n = k, !.err = err,
                                 !.after = loc[t].after, !.pdone = loc[t].pdone]
          /\ g' = [g EXCEPT !.rd = @ \o SubSeq(p4.relay, 1, k)]
    /\ pc' = [pc EXCEPT ![t] = "idle"]
    /\ loc' = [loc EXCEPT ![t] = Loc0]
    /\ UNCHANGED <<topo, h, calls, conn, d, c>>

\* Close: z.decompressor_w.CloseWithError(io.EOF)
TwoCloseStart(t) ==
    /\ pc[t] = "tc_start"
    /\ c' = [c EXCEPT !.pipe.wclosed = TRUE]
    /\ pc' = [pc EXCEPT ![t] = "tc_waitw"]
    /\ UNCHANGED <<topo, h, p4, loc, ret, calls, conn, d, g>>

\* Close: z.writeWaitGroup.Wait()
TwoCloseWaitW(t) ==
    /\ pc[t] = "tc_waitw" /\ c.wg = 0
    /\ pc' = [pc EXCEPT ![t] = "tc_arm"]
    /\ UNCHANGED <<topo, h, p4, loc, ret, calls, conn, d, c, g>>

\* Close: z.WriteCloser.SetReadDeadline(time.Now()); the deadline has passed
\* as soon as it is set
TwoCloseArm(t) ==
    /\ pc[t] = "tc_arm"
    /\ conn' = [conn EXCEPT !.rdl = IF conn.closed > 0 THEN @ ELSE "expired"]
    /\ pc' = [pc EXCEPT ![t] = "tc_waitr"]
    /\ UNCHANGED <<topo, h, p4, loc, ret, calls, d, c, g>>

\* A Close that does not wait for the read pump.
TwoCloseConnNoWait(t) ==
    /\ pc[t] = "tc_waitr"
    /\ conn' = [conn EXCEPT !.closed = IF @ = 0 THEN 1 ELSE 2]
    /\ \E r \in ConnCloseResults :
          ReturnOf(t, [loc[t] EXCEPT !.uerr = r, !.ucl = @ + 1], 0, r)
    /\ UNCHANGED <<topo, h, p4, calls, d, c>>

\* Close: z.waitGroup.Wait(); return z.WriteCloser.Close()
TwoCloseConn(t) ==
    /\ pc[t] = "tc_waitr" /\ p4.wg = 0
    /\ conn' = [conn EXCEPT !.closed = IF @ = 0 THEN 1 ELSE 2]
    /\ \E r \in ConnCloseResults :
          ReturnOf(t, [loc[t] EXCEPT !.uerr = r, !.ucl = @ + 1], 0, r)
    /\ UNCHANGED <<topo, h, p4, calls, d, c>>

\* Write and CloseWrite are those of the one-pump variant: the pipe to the
\* write pump, and the wait for it.
TwoStep(t) ==
    \/ TwoRead(t)
    \/ TwoCloseStart(t) \/ TwoCloseWaitW(t) \/ TwoCloseArm(t) \/ TwoCloseConn(t)
    \/ EncWritePipe(t) \/ EncWriteDone(t) \/ EncWriteClosed(t)
    \/ EncCloseWriteStart(t) \/ EncCloseWriteRet(t)

(* ------------------- the middleware: New and ServeTCP ------------------ *)
\* The configurations New is called with.
Algorithms == {"zstd", "gzip", ""}
LevelStrings == {"", "default", "best", "bogus"}
DictPaths == {"", "d1.dict", "d2.dict", "junk.dict", "missing.dict"}

Configs == [algorithm : Algorithms, level : LevelStrings,
            dictionary : DictPaths, upstream : BOOLEAN]

\* zstd.EncoderLevelFromString: the level of a known name, else not found
\* and the default level.
LevelNames == {"fastest", "default", "better", "best"}

EncoderLevelFromString(str) ==
    IF str \in LevelNames THEN [found |-> TRUE, level |-> str]
    ELSE [found |-> FALSE, level |-> "default"]

\* ioutil.ReadFile: two files hold dictionaries, one holds other bytes, one
\* cannot be read.
ReadFile(path) ==
    CASE path = "d1.dict" -> [data |-> "D1", err |-> "nil"]
      [] path = "d2.dict" -> [data |-> "D2", err |-> "nil"]
      [] path = "junk.dict" -> [data |-> "junk", err |-> "nil"]
      [] OTHER -> [data |-> "nil", err |-> "ErrNotExist"]

\* zstd.WithEncoderDict / zstd.WithDecoderDicts accept the bytes.
ValidDict(data) == data \in {"D1", "D2"}

\* A New that rejects the empty level.
NewStrictLevel ==
    /\ topo = "new" /\ h.built = "none"
    /\ LET lv == EncoderLevelFromString(h.cfg.level)
           file == ReadFile(h.cfg.dictionary)
       IN IF h.cfg.algorithm # "zstd" THEN h' = [h EXCEPT !.built = "error"]
          ELSE IF ~lv.found THEN h' = [h EXCEPT !.built = "error"]
          ELSE IF h.cfg.dictionary # "" /\ file.err # "nil"
          THEN h' = [h EXCEPT !.built = "error"]
          ELSE h' = [h EXCEPT !.built = "handler", !.level = lv.level,
                              !.dict = IF h.cfg.dictionary # "" THEN file.data
                                       ELSE "nil"]
    /\ UNCHANGED <<topo, pc, loc, ret, calls, conn, d, c, g, p4>>

\* New: the algorithm, then the level, then the dictionary file; the handler
\* keeps next, the level and the dictionary bytes.
New ==
    /\ topo = "new" /\ h.built = "none"
    /\ LET lv == EncoderLevelFromString(h.cfg.level)
           file == ReadFile(h.cfg.dictionary)
       IN IF h.cfg.algorithm # "zstd" THEN h' = [h EXCEPT !.built = "error"]
          ELSE IF ~lv.found /\ h.cfg.level # ""
          THEN h' = [h EXCEPT !.built = "error"]
          ELSE IF h.cfg.dictionary # "" /\ file.err # "nil"
          THEN h' = [h EXCEPT !.built = "error"]
          ELSE h' = [h EXCEPT !.built = "handler", !.level = lv.level,
                              !.dict = IF h.cfg.dictionary # "" THEN file.data
                                       ELSE "nil"]
    /\ UNCHANGED <<topo, pc, loc, ret, calls, conn, d, c, g, p4>>

\* The wrapper ServeTCP builds.
Role == IF h.cfg.upstream THEN "dec" ELSE "enc"

\* A ServeTCP that builds the decoder without the dictionary.
ServeTCPNoDecoderDict ==
    /\ topo = "new" /\ h.built = "handler" /\ h.serve = "none"
    /\ IF h.dict # "nil" /\ ~ValidDict(h.dict)
       THEN /\ h' = [h EXCEPT !.serve = "panic"]
            /\ topo' = topo
       ELSE /\ topo' = Role
            /\ h' = [h EXCEPT !.serve = "served", !.edict = h.dict,
                               !.ddict = "nil", !.nexts = @ + 1, !.arg = Role]
    /\ UNCHANGED <<pc, loc, ret, calls, conn, d, c, g, p4>>

\* A ServeTCP that takes the roles the other way round.
ServeTCPSwapped ==
    /\ topo = "new" /\ h.built = "handler" /\ h.serve = "none"
    /\ IF h.dict # "nil" /\ ~ValidDict(h.dict)
       THEN /\ h' = [h EXCEPT !.serve = "panic"]
            /\ topo' = topo
       ELSE /\ topo' = (IF h.cfg.upstream THEN "enc" ELSE "dec")
            /\ h' = [h EXCEPT !.serve = "served", !.edict = h.dict,
                               !.ddict = h.dict, !.nexts = @ + 1, !.arg = topo']
    /\ UNCHANGED <<pc, loc, ret, calls, conn, d, c, g, p4>>

\* ServeTCP: NewZStdDecompressor when upstream, else NewZStdCompressor, both
\* with the handler's level and dictionary; they panic when zstd.NewReader or
\* zstd.NewWriter rejects the options.  Then s.next.ServeTCP(conn) with the
\* wrapper.
ServeTCP ==
    /\ topo = "new" /\ h.built = "handler" /\ h.serve = "none"
    /\ IF h.dict # "nil" /\ ~ValidDict(h.dict)
       THEN /\ h' = [h EXCEPT !.serve = "panic"]
            /\ topo' = topo
       ELSE /\ topo' = Role
            /\ h' = [h EXCEPT !.serve = "served", !.edict = h.dict,
                               !.ddict = h.dict, !.nexts = @ + 1, !.arg = Role]
    /\ UNCHANGED <<pc, loc, ret, calls, conn, d, c, g, p4>>

\* A frame's header names the dictionary its encoder was built with; a
\* decoder that does not hold that dictionary rejects the frame.
DictHdr(dict) == [k |-> "hdr", b |-> <<>>, dict |-> dict]

EncodeWith(dict, bytes) == <<DictHdr(dict), Blk(bytes)>>

DecodeWith(dict, us) ==
    IF Head(us).dict # "nil" /\ Head(us).dict # dict
    THEN [err |-> "ErrUnknownDictionary", out |-> <<>>]
    ELSE [err |-> "nil", out |-> DecodeBlocks(Tail(us))]

\* A peer whose decoder holds the dictionary peer decodes what the wrapper's
\* encoder makes of the bytes sent.
PeerProbe ==
    /\ h.serve = "served" /\ h.probe.peer = "none"
    /\ \E peer \in {"nil", "D1", "D2"} : \E sent \in Payloads \ {<<>>} :
          LET r == DecodeWith(peer, EncodeWith(h.edict, sent))
          IN h' = [h EXCEPT !.probe = [peer |-> peer, sent |-> sent,
                                       err |-> r.err, out |-> r.out]]
    /\ UNCHANGED <<topo, pc, loc, ret, calls, conn, d, c, g, p4>>

(* --------------------------- specifications ---------------------------- *)
Init ==
    /\ topo \in {"dec", "enc", "pipe", "two"}
    /\ pc = [t \in Threads |-> "idle"]
    /\ loc = [t \in Threads |-> Loc0]
    /\ ret = Ret0
    /\ calls = 0
    /\ conn = Conn0
    /\ d = Dec0
    /\ c = Comp0
    /\ g = G0
    /\ h = H0
    /\ p4 = P40

InitDec == Init /\ topo = "dec"

NextDec ==
    \/ \E t \in Threads : DecCall(t) \/ DecStep(t) \/ ConnWriteOk(t)
    \/ PeerSend \/ PeerEOF \/ PeerCloseRead \/ DeadlineExpire

SpecDec == InitDec /\ [][NextDec]_vars

InitEnc == Init /\ topo = "enc"

NextEnc ==
    \/ \E t \in Threads : EncCall(t) \/ EncStep(t) \/ EncReadConnZero(t)
    \/ PumpStep \/ PumpConnWriteOk
    \/ PeerSend \/ PeerEOF \/ PeerCloseRead

SpecEnc == InitEnc /\ [][NextEnc]_vars

(* The pipeline of TestStreamCompress_ServeTCP: the application writes to a  *)
(* zstdDecompressor that wraps a zstdCompressor that wraps the raw          *)
(* connection; it calls Write, then Close.                                  *)
PipeCall(t) ==
    /\ topo = "pipe" /\ t = AppThread /\ pc[t] = "idle"
    /\ calls < MaxCalls /\ g.closes = 0
    /\ \E op \in {"Write", "Close"} :
       \E p \in (IF op = "Write" THEN Payloads ELSE {<<>>}) :
          /\ loc' = [loc EXCEPT ![t] = [Loc0 EXCEPT !.op = op, !.p = p]]
          /\ pc' = [pc EXCEPT ![t] = IF op = "Write" THEN "w_lock" ELSE "c_arm"]
    /\ calls' = calls + 1
    /\ UNCHANGED <<topo, h, p4, ret, conn, d, c, g>>

PipeStep(t) ==
    \/ DecWriteLock(t) \/ DecWriteEnc(t) \/ DecWriteFlush(t) \/ DecWriteRet(t)
    \/ DecCloseArm(t) \/ DecCloseLockMu(t) \/ DecCloseLockMuW(t)
    \/ DecCloseWriter(t) \/ DecCloseConn(t) \/ DecCloseRet(t)
    \/ EncWritePipe(t) \/ EncWriteDone(t) \/ EncWriteClosed(t)
    \/ EncCloseStart(t) \/ EncCloseWait(t) \/ EncCloseWriter(t) \/ EncCloseConn(t)

InitPipe == Init /\ topo = "pipe"

NextPipe ==
    \/ \E t \in Threads : PipeCall(t) \/ PipeStep(t)
    \/ PumpStep \/ PumpConnWriteOk
    \/ DeadlineExpire

SpecPipe == InitPipe /\ [][NextPipe]_vars

(* The decode-side wrapper alone, as in                                    *)
(* TestStreamCompress_ServeTCPCompression: the application calls Write,     *)
(* then Close, on a zstdDecompressor over the raw connection, whose peer    *)
(* reads what it is sent.                                                   *)
DecAppCall(t) ==
    /\ topo = "dec" /\ t = AppThread /\ pc[t] = "idle"
    /\ calls < MaxCalls /\ g.closes = 0
    /\ \E op \in {"Write", "Close"} :
       \E p \in (IF op = "Write" THEN Payloads ELSE {<<>>}) :
          /\ loc' = [loc EXCEPT ![t] = [Loc0 EXCEPT !.op = op, !.p = p]]
          /\ pc' = [pc EXCEPT ![t] = IF op = "Write" THEN "w_lock" ELSE "c_arm"]
    /\ calls' = calls + 1
    /\ UNCHANGED <<topo, h, p4, ret, conn, d, c, g>>

DecAppStep(t) ==
    \/ DecWriteLock(t) \/ DecWriteEnc(t) \/ DecWriteFlush(t) \/ DecWriteRet(t)
    \/ DecCloseArm(t) \/ DecCloseLockMu(t) \/ DecCloseLockMuW(t)
    \/ DecCloseWriter(t) \/ DecCloseConn(t) \/ DecCloseRet(t)
    \/ ConnWriteOk(t) \/ ConnWriteErr(t)

NextDecApp ==
    \/ \E t \in Threads : DecAppCall(t) \/ DecAppStep(t)
    \/ DeadlineExpire

SpecDecApp == InitDec /\ [][NextDecApp]_vars

\* The middleware from New to the call of the next handler.
InitNew ==
    /\ topo = "new"
    /\ pc = [t \in Threads |-> "idle"]
    /\ loc = [t \in Threads |-> Loc0]
    /\ ret = Ret0
    /\ calls = 0
    /\ conn = Conn0
    /\ d = Dec0
    /\ c = Comp0
    /\ g = G0
    /\ h \in {[H0 EXCEPT !.cfg = cfg] : cfg \in Configs}
    /\ p4 = P40

NextNew == New \/ ServeTCP \/ PeerProbe

SpecNew == InitNew /\ [][NextNew]_vars

\* Either wrapper over a raw connection.
InitBoth == Init /\ topo \in {"dec", "enc"}

NextBoth == NextDec \/ NextEnc

SpecBoth == InitBoth /\ [][NextBoth]_vars

\* Scheduling: every goroutine that can take a step of the program eventually
\* takes it (sync.Mutex hands a free lock to a waiter), and an armed deadline
\* passes.  Nothing is assumed about the peer: it need not send, and it need
\* not take what is written to it.
FairSpecDec ==
    /\ SpecDec
    /\ \A t \in Threads : WF_vars(DecStep(t))
    /\ WF_vars(DeadlineExpire)

\* The decode-side wrapper over a connection whose calls all return: its
\* Write completes or fails, and its Read ends at the latest with the peer's
\* end-of-stream.
FairSpecDecConn ==
    /\ SpecDec
    /\ \A t \in Threads : WF_vars(DecStep(t)) /\ WF_vars(ConnWriteOk(t))
    /\ WF_vars(DeadlineExpire) /\ WF_vars(PeerEOF)

FairSpecEnc ==
    /\ SpecEnc
    /\ \A t \in Threads : WF_vars(EncStep(t))
    /\ WF_vars(PumpStep)

\* Either wrapper with a peer that takes what is written to it, and that need
\* not send anything.
FairSpecBoth ==
    /\ SpecBoth
    /\ \A t \in Threads : WF_vars(DecStep(t)) /\ WF_vars(EncStep(t))
                           /\ WF_vars(ConnWriteOk(t))
    /\ WF_vars(PumpStep) /\ WF_vars(PumpConnWriteOk)
    /\ WF_vars(DeadlineExpire)

\* The two-pump variant over a raw connection.
InitTwo == Init /\ topo = "two"

NextTwo ==
    \/ PeerSend \/ PeerEOF \/ PeerCloseRead \/ PeerReset
    \/ \E t \in Threads : TwoCall(t) \/ TwoStep(t)
    \/ PumpStep \/ PumpConnWriteOk \/ RPumpStep

SpecTwo == InitTwo /\ [][NextTwo]_vars

\* The two-pump variant with a peer that takes what is written to it.
FairSpecTwo ==
    /\ SpecTwo
    /\ \A t \in Threads : WF_vars(TwoStep(t))
    /\ WF_vars(PumpStep) /\ WF_vars(PumpConnWriteOk)
    /\ WF_vars(RPumpStep)

(* ------------------------------ claims --------------------------------- *)

\* C1: end-to-end round trip.  In the pipeline, once the raw connection is
\* closed (its peer sees end-of-stream), it has received exactly the bytes the
\* application wrote.
C1_RoundTrip ==
    (topo = "pipe" /\ conn.closed > 0) => conn.tx = g.accepted

\* C2: flush-liveness.  Once a Write(B) on the decode-side wrapper has returned
\* n = len(B) > 0 and no error, what the connection received decodes to the
\* accepted bytes up to and including B: nothing of B waits in the encoder.
C2_FlushLiveness ==
    (ret.op = "Write" /\ ret.err = "nil" /\ ret.n > 0 /\ topo = "dec")
        => /\ Len(DecodeAll(conn.tx)) >= ret.pos
           /\ IsPrefix(DecodeAll(conn.tx), g.accepted)

C2_Witness ==
    /\ topo = "dec" /\ ret.op = "Write" /\ ret.err = "nil" /\ ret.n = 2
    /\ DecodeAll(conn.tx) = <<1, 2>>

\* C3: deadline-bounded shutdown.  Every Close of the decode-side wrapper
\* returns, also when a Read holds the read mutex blocked in the connection's
\* read and the peer never sends.
C3_CloseReturns ==
    \A t \in Threads : (pc[t] = "c_arm") ~> (pc[t] = "idle")

C3_Witness ==
    topo = "dec" /\ ret.op = "Close" /\ ret.blk /\ conn.sent = 0 /\ ~conn.rxEOF

\* C4: Close of the encode-side wrapper eventually returns, whatever the
\* connection does, also when the write pump is blocked in a Write to the
\* connection that the peer never takes.
C4_EncCloseReturns ==
    \A t \in Threads : (topo = "enc" /\ pc[t] = "ec_start") ~> (pc[t] = "idle")

\* C5: idempotent close.  A Close called after a Close has returned gives
\* success or an already-closed status of the wrapper, never the error of
\* closing the underlying connection a second time.
C5_IdempotentClose ==
    (ret.op = "Close" /\ ret.after) => ret.err \in {"nil", "ErrAlreadyClosed"}

\* C6: decode-side Write error contract.  When the encoder's write step failed,
\* Write returns 0 and an error, whatever the flush step reports.
C6_WriteErrorContract ==
    (topo = "dec" /\ ret.op = "Write" /\ ret.werr # "nil")
        => (ret.n = 0 /\ ret.err # "nil")

\* C7: a Read of the encode-side wrapper whose underlying Read gave 0 bytes
\* and no error does not return io.EOF or any other error.
C7_ZeroReadNotEOF ==
    (topo = "enc" /\ ret.op = "Read" /\ ret.zero) => ret.err = "nil"

\* C8: concurrent independence.  On either wrapper a Write that has been
\* called returns, with a peer that takes what is written, also while a Read
\* of another thread stays blocked because the peer never sends.
C8_WriteIndependent ==
    \A t \in Threads : (pc[t] \in {"w_lock", "ew_pipe"}) ~> (pc[t] = "idle")

C8_Witness ==
    /\ topo = "dec" /\ ret.op = "Write" /\ ret.err = "nil" /\ ret.n > 0
    /\ \E r \in Threads : ReadBlocked(r)
    /\ conn.sent = 0 /\ g.closes = 0

\* C9: per-direction serialization on the decode-side wrapper.  At most one
\* call is inside the decoder (Read's reader.Read, Close's reader.Close) and
\* at most one is inside the encoder (Write's Write and Flush, the
\* writer.Close of Close and CloseWrite, and their writes to the connection).
InDecoder(t) == pc[t] \in {"r_dec", "c_rclose"}

InEncoder(t) == pc[t] \in {"w_enc", "w_flush", "w_ret", "c_wclose", "cw_wclose", "u_write"}

C9_DecSerialized ==
    topo = "dec" => /\ Cardinality({t \in Threads : InDecoder(t)}) <= 1
                    /\ Cardinality({t \in Threads : InEncoder(t)}) <= 1

C9_Witness ==
    /\ topo = "dec"
    /\ \E t, u \in Threads : /\ t # u /\ pc[t] = "r_dec" /\ pc[u] = "r_lock"
                              /\ loc[u].op = "Read"

\* C10: per-direction serialization on the encode-side wrapper.  At most one
\* call at a time is between its first and its last access to readBuffer and
\* the encoder that writes into it: a Read from the encoder's Write to
\* readBuffer.Read, a Close in the encoder's Close.
InRelay(t) == pc[t] \in {"er_enc", "er_flush", "er_buf", "ec_wclose"}

C10_EncSerialized ==
    topo = "enc" => Cardinality({t \in Threads : InRelay(t)}) <= 1

\* C11: pumps stop before the connection closes.  Once the encode-side
\* wrapper has invoked the underlying Close, its write pump has terminated: the
\* wait group is at zero and nothing is left that the pump could still write.
C11_PumpStopsBeforeClose ==
    (topo = "enc" /\ conn.closed > 0)
        => (c.pump = "done" /\ c.wg = 0 /\ c.pq = <<>>)

C11_Witness ==
    topo = "enc" /\ conn.closed > 0 /\ conn.tx # <<>> /\ ret.op = "Close"

\* C12: close error priority.  Close on both wrappers and CloseWrite on the
\* decode-side wrapper return the underlying close's (half-close's) error
\* whenever it is not nil, the encoder-close error only when the underlying
\* close succeeded, and nil only when both succeeded.
C12_CloseErrorPriority ==
    (ret.op = "Close" \/ (ret.op = "CloseWrite" /\ topo = "dec"))
        => /\ ret.uerr # "nil" => ret.err = ret.uerr
           /\ (ret.uerr = "nil" /\ ret.werr # "nil") => ret.err = ret.werr
           /\ ret.err = "nil" => (ret.uerr = "nil" /\ ret.werr = "nil")

C12_Witness ==
    /\ topo = "dec" /\ ret.op = "Close" /\ ret.werr # "nil" /\ ret.uerr # "nil"
    /\ ret.werr # ret.uerr /\ ret.err = ret.uerr

\* C13: one Close call on either wrapper invokes the underlying connection's
\* Close exactly once, also when closing the encoder failed, and the
\* connection is closed when Close has returned.
C13_CloseOnce ==
    (topo \in {"dec", "enc"} /\ ret.op = "Close")
        => (ret.ucl = 1 /\ conn.closed > 0)

C13_Witness ==
    topo = "dec" /\ ret.op = "Close" /\ ret.werr # "nil" /\ ret.ucl = 1
    /\ conn.closed = 1

\* C14: CloseWrite drains before half-closing.  When the encode-side wrapper
\* has invoked the underlying CloseWrite, the pipe takes no more input, the
\* write pump has terminated, and, unless a write to the connection failed or
\* the input was malformed, every byte of the Writes that returned success has
\* been decoded and written to the connection.
C14_CloseWriteDrains ==
    (topo = "enc" /\ conn.wclosed)
        => /\ c.pipe.wclosed /\ c.pump = "done"
           /\ (~c.werr /\ c.pin # "bad") => IsPrefix(c.wacc, conn.tx)

C14_Witness ==
    /\ topo = "enc" /\ conn.wclosed /\ ret.op = "CloseWrite" /\ ret.err = "nil"
    /\ c.wacc # <<>> /\ conn.tx = c.wacc

\* C15: shutting down the write direction leaves the read direction
\* untouched.  As long as no Close has been called, whatever CloseWrite and the
\* write pump have done, no read deadline is armed, the connection is not
\* closed, the codec of the read direction is not closed, and no Read fails
\* with a timeout or a closed connection or codec.
NoCloseCalled == g.closes = 0 /\ \A t \in Threads : loc[t].op # "Close"

C15_ReadSideUntouched ==
    (topo \in {"dec", "enc"} /\ NoCloseCalled)
        => /\ conn.rdl = "none" /\ conn.closed = 0
           /\ ~d.rclosed /\ ~c.enc.closed
           /\ ret.op = "Read" => ret.err \in {"nil", "EOF"}

C15_Witness ==
    /\ topo = "dec" /\ NoCloseCalled /\ conn.wclosed
    /\ ret.op = "Read" /\ ret.pdone /\ ret.n > 0 /\ ret.err = "nil"

\* C16: pump failure is a terminal status of the write direction.  A Write on
\* the encode-side wrapper that began after the write pump had left WriteTo,
\* for whatever reason, returns 0 bytes and an error.
C16_WriteAfterPumpFails ==
    (topo = "enc" /\ ret.op = "Write" /\ ret.pdone)
        => (ret.n = 0 /\ ret.err # "nil")

C16_Witness ==
    /\ topo = "enc" /\ ret.op = "Write" /\ ret.pdone /\ c.werr
    /\ ret.n = 0 /\ ret.err = "ErrClosedPipe"

\* C17: FIFO within the read direction of the encode-side wrapper.  What the
\* Read calls have returned so far, in the order they returned it, starts with
\* the frame header and decodes to a prefix of the bytes read from the
\* connection, in the order they were read.
C17_ReadFIFO ==
    topo = "enc" => /\ g.rd # <<>> => Head(g.rd) = Hdr
                    /\ IsPrefix(DecodeBlocks(g.rd), c.rdin)

\* C18: the decode-side wrapper alone.  When the application has written with
\* Write and then called Close, what the peer has received once the connection
\* is closed is a complete compressed stream, ended by the encoder's Close,
\* that decodes to exactly the bytes written.
C18_DecAloneStream ==
    (topo = "dec" /\ conn.closed > 0)
        => /\ DecodeAll(conn.tx) = g.accepted
           /\ conn.tx # <<>> => conn.tx[Len(conn.tx)] = End

\* C19: the encode-side wrapper alone.  When the underlying connection is
\* closed and no Write is in progress, the connection has received exactly the
\* decoded bytes of the Writes that returned success, in order, unless a write
\* to the connection failed or the written stream was malformed.
C19_EncAloneDelivers ==
    (/\ topo = "enc" /\ conn.closed > 0 /\ ~c.werr /\ c.pin # "bad"
     /\ \A t \in Threads : loc[t].op # "Write")
        => conn.tx = c.wacc

C19_Witness ==
    /\ topo = "enc" /\ conn.closed > 0 /\ ret.op = "Close" /\ ~c.werr
    /\ c.wacc # <<>> /\ conn.tx = c.wacc

\* C20: layering composes to the identity.  With one pair of stacked wrappers,
\* when the application's Close has returned, the raw connection has received
\* exactly the bytes the application wrote, and no write of the outer layer's
\* pump has failed: the deadline the inner Close arms on the shared raw
\* connection has cost no bytes in flight.
C20_LayeringIdentity ==
    (topo = "pipe" /\ ret.op = "Close")
        => (conn.tx = g.accepted /\ ~c.werr)

\* C21: shutdown state machine.  On either wrapper a Write that began after
\* CloseWrite had returned, and a Read or Write that began after Close had
\* returned, returns an error.
C21_ShutdownStates ==
    topo \in {"dec", "enc"}
        => /\ (ret.op = "Write" /\ ret.pdone /\ conn.wclosed) => ret.err # "nil"
           /\ (ret.op \in {"Read", "Write"} /\ ret.after) => ret.err # "nil"

\* C22: construction validation.  New returns an error and no handler exactly
\* when the algorithm is not "zstd", or the level is a non-empty string that
\* names no level, or a non-empty dictionary path cannot be read; and until
\* ServeTCP runs no connection is touched and the next handler is not called.
C22_ConstructionValidation ==
    /\ h.built # "none"
          => (h.built = "error"
                <=> \/ h.cfg.algorithm # "zstd"
                    \/ h.cfg.level # "" /\ h.cfg.level \notin LevelNames
                    \/ h.cfg.dictionary # ""
                         /\ ReadFile(h.cfg.dictionary).err # "nil")
    /\ h.serve = "none" => (conn = Conn0 /\ h.nexts = 0 /\ topo = "new")

C22_Witness ==
    /\ h.built = "handler" /\ h.serve = "none"
    /\ h.cfg.level = "" /\ h.cfg.dictionary = ""

\* C23: a codec initialisation failure is reported by New.  A handler that
\* New returned does not panic in ServeTCP when it builds its wrapper.
C23_CodecFailureAtConstruction ==
    h.built = "handler" => h.serve # "panic"

\* C24: dictionary symmetry.  The wrapper's encoder and decoder are built with
\* the same dictionary, the handler's; a peer with the same dictionary decodes
\* what the encoder produced to the bytes sent, and a peer with another or no
\* dictionary gets an error for a stream encoded with a dictionary, never
\* other bytes.
C24_DictionarySymmetry ==
    h.serve = "served"
        => /\ h.edict = h.dict /\ h.ddict = h.edict
           /\ h.probe.peer # "none"
                => /\ h.probe.peer = h.ddict
                        => (h.probe.err = "nil" /\ h.probe.out = h.probe.sent)
                   /\ (h.edict # "nil" /\ h.probe.peer # h.edict)
                        => h.probe.err # "nil"
                   /\ h.probe.err = "nil" => h.probe.out = h.probe.sent

C24_Witness ==
    /\ h.serve = "served" /\ h.edict = "D1" /\ h.ddict = "D1"
    /\ h.probe.peer = "D2" /\ h.probe.err = "ErrUnknownDictionary"

C26_NoLossOnClose ==
    [][(/\ topo = "enc" /\ conn.closed = 0 /\ conn'.closed > 0
        /\ ~c.werr /\ c.pin # "bad")
          => (IsPrefix(c.wacc, conn.tx) /\ c.pq = <<>> /\ conn'.tx = conn.tx)]_vars

C26_Witness ==
    /\ topo = "enc" /\ ret.op = "Close" /\ ret.uerr = "nil" /\ ret.ucl = 1
    /\ ~c.werr /\ c.pin = "eof" /\ Len(c.wacc) >= 1 /\ IsPrefix(c.wacc, conn.tx)

\* C27: the two-pump Close never deadlocks.  A Close that has started
\* eventually returns, whatever the caller's Reads do: arming the read deadline
\* makes the read pump exit.
C27_TwoCloseReturns ==
    \A t \in Threads : (pc[t] = "tc_start") ~> (pc[t] = "idle")

\* C28: close ordering of the two-pump variant.  While Close arms the read
\* deadline the relay's write end is closed and the write pump has terminated;
\* while it waits for the read pump the read deadline is armed; and once the
\* underlying Close has been invoked, and so when Close has returned, both
\* pumps have terminated and the deadline had been armed.
C28_TwoCloseOrdering ==
    topo = "two"
        => /\ \A t \in Threads :
                /\ pc[t] \in {"tc_arm", "tc_waitr"}
                     => (c.pipe.wclosed /\ c.wg = 0 /\ c.pump = "done")
                /\ pc[t] = "tc_waitr" => conn.rdl = "expired"
           /\ (conn.closed > 0 \/ ret.op = "Close")
                => /\ c.pump = "done" /\ c.wg = 0
                   /\ p4.rp = "done" /\ p4.wg = 0
                   /\ conn.rdl = "expired" /\ conn.closed > 0

C28_Witness ==
    /\ topo = "two" /\ ret.op = "Close" /\ ret.ucl = 1 /\ conn.closed = 1
    /\ p4.rerr = "ErrTimeout" /\ p4.rdin # <<>>

C30_ReadPumpError ==
    (topo = "two" /\ ret.op = "Read" /\ ret.pdone
     /\ p4.rerr \notin {"nil", "EOF"})
        => ret.err = p4.rerr

\* C31: the decode-side Close closes the codecs in quiescence.  From the
\* moment Close waits for a mutex the deadline is armed; while it closes the
\* encoder, the connection and the decoder it holds both mutexes and no other
\* call is inside the decoder or the encoder; and a call that has returned
\* holds no mutex.
InClose(t) ==
    \/ pc[t] \in {"c_wclose", "c_uclose", "c_rclose"}
    \/ pc[t] = "u_write" /\ loc[t].op = "Close"

C31_CloseInQuiescence ==
    topo = "dec"
        => \A t \in Threads :
              /\ (pc[t] \in {"c_mu", "c_muW"} \/ InClose(t))
                   => \/ conn.closed > 0
                      \/ conn.rdl # "none" /\ conn.wdl # "none"
              /\ InClose(t)
                   => /\ d.mu = t /\ d.muW = t
                      /\ \A r \in Threads \ {t} : ~InDecoder(r) /\ ~InEncoder(r)
              /\ pc[t] = "idle" => (d.mu # t /\ d.muW # t)

C31_Witness ==
    /\ topo = "dec"
    /\ \E t, r \in Threads :
          /\ pc[t] = "c_rclose" /\ d.enc.closed /\ conn.closed = 1
          /\ pc[r] \in {"r_lock", "w_lock"}

\* C32: ordering of the decode-side CloseWrite.  While CloseWrite closes the
\* encoder and half-closes the connection it holds the write mutex and not the
\* read mutex; when it invokes the underlying CloseWrite the encoder's Close
\* has been called and what it emitted has gone to the connection; and once
\* the connection is half-closed this wrapper starts no write on it and its
\* received bytes no longer change.
InCloseWrite(t) ==
    \/ pc[t] \in {"cw_wclose", "cw_uclose"}
    \/ pc[t] = "u_write" /\ loc[t].op = "CloseWrite"

C32_CloseWriteOrdering ==
    /\ [](topo = "dec"
            => /\ \A t \in Threads :
                    /\ InCloseWrite(t) => (d.muW = t /\ d.mu # t)
                    /\ pc[t] = "cw_uclose"
                         => (loc[t].out = <<>> /\ EncoderCloseOut(d.enc) = <<>>)
               /\ conn.wclosed => \A t \in Threads : pc[t] # "u_write")
    /\ [][(topo = "dec" /\ conn.wclosed) => conn'.tx = conn.tx]_vars

C32_Witness ==
    /\ topo = "dec" /\ ret.op = "CloseWrite" /\ ret.err = "nil" /\ conn.wclosed
    /\ conn.closed = 0 /\ Len(conn.tx) >= 3 /\ conn.tx[Len(conn.tx)] = End
    /\ d.enc.closed

\* C33: no lock-order deadlock on the decode-side wrapper.  When every call
\* on the underlying connection returns, every Read, Write, CloseWrite and
\* Close that has started returns; and never do two calls each hold one of
\* the two mutexes while waiting for the other.
WaitsForMu(t) == pc[t] \in {"r_lock", "c_mu"}

WaitsForMuW(t) == pc[t] \in {"w_lock", "c_muW", "cw_muW"}

C33_NoLockOrderDeadlock ==
    /\ \A t \in Threads : (topo = "dec" /\ pc[t] # "idle") ~> (pc[t] = "idle")
    /\ [](topo = "dec"
            => ~ \E t, r \in Threads :
                    /\ t # r
                    /\ d.mu = t /\ WaitsForMuW(t)
                    /\ d.muW = r /\ WaitsForMu(r))

C33_Witness ==
    /\ topo = "dec"
    /\ \E t, r \in Threads :
          /\ t # r /\ pc[t] = "c_muW" /\ d.mu = t
          /\ d.muW = r /\ pc[r] = "u_write" /\ loc[r].op = "Write"

\* C34: a Write blocked in the relay is released when the pump dies.  On the
\* encode-side wrapper a Write whose bytes wait in the pipe when the write pump
\* has left WriteTo returns, and it returns 0 bytes and an error; and when the
\* pump's wait group is at zero both ends of the pipe are closed.
WriteBlocked(t) ==
    pc[t] = "ew_wait" /\ c.pipe.writer = t /\ c.pipe.data # <<>>

C34_BlockedWriteReleased ==
    /\ \A t \in Threads :
          (topo = "enc" /\ WriteBlocked(t) /\ c.pump # "run") ~> (pc[t] = "idle")
    /\ [][\A t \in Threads :
            (topo = "enc" /\ WriteBlocked(t) /\ c.pump # "run" /\ pc'[t] = "idle")
                => (ret'.op = "Write" /\ ret'.n = 0 /\ ret'.err # "nil")]_vars
    /\ []((topo = "enc" /\ c.wg = 0) => (c.pipe.wclosed /\ c.pipe.rclosed))

C34_Witness ==
    /\ topo = "enc" /\ ret.op = "Write" /\ ~ret.pdone
    /\ ret.n = 0 /\ ret.err = "ErrClosedPipe"
    /\ c.pump = "done" /\ c.werr /\ g.wsent = 2

\* C35: the encode-side Read serves buffered data first.  A Read is in its
\* call on the underlying connection, or in the encoder's Write or Flush, only
\* while the relay buffer is empty.
C35_BufferedFirst ==
    topo = "enc"
        => \A t \in Threads :
              pc[t] \in {"er_conn", "er_enc", "er_flush"} => c.buf = <<>>

\* C36: the encode-side Read at end-of-stream.  Once a Read whose underlying
\* Read did not give (0, nil) has returned io.EOF, the relay buffer is empty and every byte taken from the underlying
\* connection, also a chunk that came together with end-of-stream, has been
\* compressed, flushed and returned by a Read: none is returned after the
\* io.EOF and none is dropped.
C36_NoLossAtEOF ==
    (topo = "enc" /\ ret.op = "Read" /\ ret.err = "EOF" /\ ~ret.zero)
        => (c.buf = <<>> /\ Len(DecodeBlocks(g.rd)) = Len(c.rdin))

\* C37: the encode-side Read on failure.  A Read whose underlying Read fails
\* with an error other than io.EOF returns 0 bytes and that error and leaves
\* the relay buffer, the encoder and what Read has returned as they were, also
\* when bytes came with the error; a Read that ends in the encoder's Write or
\* Flush returns 0 bytes and an error and hands no bytes to its caller.
C37_ReadFailure ==
    [][\A t \in Threads :
          /\ (topo = "enc" /\ pc[t] = "er_conn" /\ pc'[t] = "idle"
               /\ ret'.err \notin {"nil", "EOF"})
                => /\ ret'.op = "Read" /\ ret'.n = 0
                   /\ ret'.err = ConnIOErr(conn.rdl)
                   /\ c' = c /\ g'.rd = g.rd
          /\ (topo = "enc" /\ pc[t] \in {"er_enc", "er_flush"} /\ pc'[t] = "idle")
                => /\ ret'.op = "Read" /\ ret'.n = 0 /\ ret'.err # "nil"
                   /\ g'.rd = g.rd]_vars

C37_Witness ==
    /\ topo = "enc" /\ ret.op = "Read" /\ ret.n = 0 /\ ret.err = "ErrUseOfClosed"
    /\ conn.sent = 1 /\ conn.rx = <<>> /\ c.rdin = <<>>
    /\ c.buf = <<>> /\ c.enc.filling = <<>> /\ ~c.enc.hdr /\ g.rd = <<>>

====
